---------------------------- MODULE Spec2Model ----------------------------
(***************************************************************************)
(* Model of the Smart Study Companion summarization backend:               *)
(*   models/summarizer.py  TextSummarizer (constructor, summarize, the     *)
(*                         short and long strategies, prompt construction, *)
(*                         bullet formatting, batch_summarize)             *)
(*   app.py                POST /api/v1/summarize (summarize_text)         *)
(*                                                                         *)
(* A Python str is a sequence of one-character strings.  The bullet        *)
(* character U+2022 is written "U+2022" and stands for one character.      *)
(* An exception message is a sequence of string fragments; f-string        *)
(* interpolation of a message is concatenation of fragments.               *)
(* compression_ratio, a float with two decimals, is kept in hundredths.    *)
(***************************************************************************)
EXTENDS Integers, Sequences, FiniteSets, TLC

VARIABLES
    env,             \* os.environ: value of OPENAI_API_KEY
    openai_api_key,  \* the module attribute openai.api_key
    summarizers,     \* the TextSummarizer objects alive, in construction order
    request,         \* the call or HTTP request being made
    response,        \* what the call returned or raised
    calls            \* external provider invocations made for `request`

vars == <<env, openai_api_key, summarizers, request, response, calls>>

-----------------------------------------------------------------------------
(* Python str primitives                                                   *)

BulletChar == "U+2022"
Whitespace == {" ", "\n", "\t"}

Range(s) == {s[i] : i \in 1..Len(s)}

Min(S) == CHOOSE x \in S : \A y \in S : x <= y

RECURSIVE FirstNonSpace(_, _)
FirstNonSpace(s, i) ==
    IF i > Len(s) \/ s[i] \notin Whitespace THEN i ELSE FirstNonSpace(s, i + 1)

RECURSIVE LastNonSpace(_, _)
LastNonSpace(s, i) ==
    IF i < 1 \/ s[i] \notin Whitespace THEN i ELSE LastNonSpace(s, i - 1)

\* str.strip()
Strip(s) == SubSeq(s, FirstNonSpace(s, 1), LastNonSpace(s, Len(s)))

\* s.endswith('.')
EndsWithPeriod(s) == Len(s) > 0 /\ s[Len(s)] = "."

\* s.split('. '): the pieces between successive occurrences of ". "
RECURSIVE SplitSentences(_)
SplitSentences(s) ==
    LET at == {i \in 1..(Len(s) - 1) : s[i] = "." /\ s[i + 1] = " "}
    IN  IF at = {} THEN <<s>>
        ELSE LET i == Min(at)
             IN  <<SubSeq(s, 1, i - 1)>> \o SplitSentences(SubSeq(s, i + 2, Len(s)))

\* len(s.split()): maximal runs of non-whitespace characters
WordCount(s) ==
    Cardinality({i \in 1..Len(s) :
                    /\ s[i] \notin Whitespace
                    /\ (i = 1 \/ s[i - 1] \in Whitespace)})

\* needle in hay
Contains(hay, needle) ==
    \E i \in 1..(Len(hay) - Len(needle) + 1) :
        SubSeq(hay, i, i + Len(needle) - 1) = needle

\* '\n'.join(lines)
RECURSIVE JoinLines(_)
JoinLines(lines) ==
    IF lines = <<>> THEN <<>>
    ELSE IF Len(lines) = 1 THEN lines[1]
    ELSE lines[1] \o <<"\n">> \o JoinLines(Tail(lines))

DigitChars == <<"0", "1", "2", "3", "4", "5", "6", "7", "8", "9">>

RECURSIVE NatDigits(_)
NatDigits(n) ==
    IF n < 10 THEN <<DigitChars[n + 1]>>
    ELSE NatDigits(n \div 10) \o <<DigitChars[(n % 10) + 1]>>

\* f"{n}" for an int n
ToDecimal(n) == IF n < 0 THEN <<"-">> \o NatDigits(-n) ELSE NatDigits(n)

\* s * n
Repeat(s, n) == [i \in 1..(n * Len(s)) |-> s[((i - 1) % Len(s)) + 1]]

-----------------------------------------------------------------------------
(* round(len(summary) / len(text), 2)                                      *)
(*                                                                         *)
(* The quotient is an IEEE-754 double, and round() rounds the double's     *)
(* exact value half-to-even.  Off a decimal tie the double's error cannot  *)
(* change the nearest hundredth; on a tie the direction of the double's    *)
(* error decides, and only an exactly representable quotient is rounded    *)
(* to the even hundredth.                                                  *)

MantissaBits == 53

RECURSIVE ScaleUp(_, _)
ScaleUp(num, den) == IF num >= den THEN num ELSE ScaleUp(2 * num, den)

RECURSIVE ScaleDen(_, _)
ScaleDen(num, den) == IF num < 2 * den THEN den ELSE ScaleDen(num, 2 * den)

\* Long division, StepBits bits at a time: `left` more mantissa bits of
\* rem/den; -1, 0 or 1 as the double nearest num/den lies below, on or
\* above the quotient.  (den < 2^17 keeps the products within 32 bits.)
StepBits == 13

RECURSIVE DoubleErrorBits(_, _, _, _)
DoubleErrorBits(rem, den, left, lastBit) ==
    IF left = 0
    THEN IF rem = 0 THEN 0
         ELSE IF 2 * rem < den THEN -1
         ELSE IF 2 * rem > den THEN 1
         ELSE IF lastBit = 1 THEN 1 ELSE -1
    ELSE LET k == IF left >= StepBits THEN StepBits ELSE left
             shifted == rem * (2 ^ k)
         IN  DoubleErrorBits(shifted % den, den, left - k, (shifted \div den) % 2)

DoubleError(num, den) ==
    IF num = 0 THEN 0
    ELSE LET n == ScaleUp(num, den)
             d == ScaleDen(n, den)
         IN  DoubleErrorBits(n - d, d, MantissaBits - 1, 1)

\* Truncation instead of rounding.
CompressionRatioTruncated(summary_length, original_length) ==
    (100 * summary_length) \div original_length

\* round(summary_length / original_length, 2), in hundredths
CompressionRatio(summary_length, original_length) ==
    LET q == (100 * summary_length) \div original_length
        r == (100 * summary_length) % original_length
        e == DoubleError(summary_length, original_length)
    IN  IF 2 * r < original_length THEN q
        ELSE IF 2 * r > original_length THEN q + 1
        ELSE IF e > 0 THEN q + 1
        ELSE IF e < 0 THEN q
        ELSE IF q % 2 = 0 THEN q ELSE q + 1

-----------------------------------------------------------------------------
(* TextSummarizer._build_prompt                                            *)

BasePromptHead ==
    <<"P","l","e","a","s","e"," ","s","u","m","m","a","r","i","z","e"," ",
      "t","h","e"," ","f","o","l","l","o","w","i","n","g"," ","t","e","x",
      "t"," ","i","n"," ","a","p","p","r","o","x","i","m","a","t","e","l",
      "y"," ">>
BasePromptTail ==
    <<" ","w","o","r","d","s",".">>
ConciseInstruction ==
    <<"P","r","o","v","i","d","e"," ","a"," ","c","o","n","c","i","s","e",
      " ","s","u","m","m","a","r","y"," ","c","a","p","t","u","r","i","n",
      "g"," ","t","h","e"," ","m","a","i","n"," ","p","o","i","n","t","s",
      ".">>
DetailedInstruction ==
    <<"P","r","o","v","i","d","e"," ","a"," ","d","e","t","a","i","l","e",
      "d"," ","s","u","m","m","a","r","y"," ","i","n","c","l","u","d","i",
      "n","g"," ","k","e","y"," ","d","e","t","a","i","l","s"," ","a","n",
      "d"," ","s","u","p","p","o","r","t","i","n","g"," ","i","n","f","o",
      "r","m","a","t","i","o","n",".">>
BulletInstruction ==
    <<"P","r","o","v","i","d","e"," ","a"," ","s","u","m","m","a","r","y",
      " ","i","n"," ","b","u","l","l","e","t"," ","p","o","i","n","t"," ",
      "f","o","r","m","a","t",","," ","h","i","g","h","l","i","g","h","t",
      "i","n","g"," ","k","e","y"," ","p","o","i","n","t","s",".">>
GenericInstruction ==
    <<"P","r","o","v","i","d","e"," ","a"," ","c","l","e","a","r"," ","s",
      "u","m","m","a","r","y",".">>
TextHeader ==
    <<"\n","\n","T","e","x","t",":","\n">>
SummaryFooter ==
    <<"\n","\n","S","u","m","m","a","r","y",":">>

\* Every summary type gets the concise instruction.
InstructionAlwaysConcise(summary_type) == ConciseInstruction

Instruction(summary_type) ==
    IF summary_type = "concise" THEN ConciseInstruction
    ELSE IF summary_type = "detailed" THEN DetailedInstruction
    ELSE IF summary_type = "bullet_points" THEN BulletInstruction
    ELSE GenericInstruction

build_prompt(text, summary_type, max_length) ==
    BasePromptHead \o ToDecimal(max_length) \o BasePromptTail
        \o <<"\n">> \o Instruction(summary_type)
        \o TextHeader \o text \o SummaryFooter

-----------------------------------------------------------------------------
(* TextSummarizer._format_as_bullets                                       *)

Bullet(sent) ==
    <<BulletChar, " ">> \o Strip(sent)
        \o (IF ~EndsWithPeriod(sent) THEN <<".">> ELSE <<>>)

BulletLines(sentences) ==
    LET keep == {i \in 1..Len(sentences) : Strip(sentences[i]) # <<>>}
        RECURSIVE From(_)
        From(i) ==
            IF i > Len(sentences) THEN <<>>
            ELSE IF i \in keep THEN <<Bullet(sentences[i])>> \o From(i + 1)
            ELSE From(i + 1)
    IN  From(1)

format_as_bullets(text) ==
    IF BulletChar \in Range(text) \/ "-" \in Range(text) THEN text
    ELSE JoinLines(BulletLines(SplitSentences(text)))

-----------------------------------------------------------------------------
(* Values                                                                  *)

NoValue == "None"                \* Python None / an absent argument or key
Truthy(v) == v # NoValue /\ v # ""

Return(v) == [kind |-> "return", value |-> v]
Raise(exc, msg) == [kind |-> "raise", exc |-> exc, msg |-> msg]

\* except ValueError: ValueError itself (no subclass is raised here)
IsValueError(exc) == exc = "ValueError"

DefaultModel == "gpt-3.5-turbo"
SystemPrompt ==
    "You are a helpful assistant that creates concise and accurate summaries."

ShortLimit == 1000
ChunkSize == 2000
ChunkOverlap == 200
OriginalTextLimit == 100
DefaultMaxLength == 150
DefaultSummaryType == "concise"

-----------------------------------------------------------------------------
(* TextSummarizer.__init__                                                 *)

\* The environment variable wins over the argument.
ResolveApiKeyEnvFirst(api_key, environ) ==
    IF Truthy(environ) THEN environ ELSE api_key

\* api_key or os.getenv('OPENAI_API_KEY')
ResolveApiKey(api_key, environ) ==
    IF Truthy(api_key) THEN api_key ELSE environ

\* The constructor: what it raises or the object it builds, and the value
\* openai.api_key holds afterwards.
TextSummarizer_init(api_key, model, environ, global_key) ==
    LET key == ResolveApiKey(api_key, environ)
    IN  IF ~Truthy(key)
        THEN [outcome |-> Raise("ValueError",
                  <<"OpenAI API key is required. Set OPENAI_API_KEY environment variable.">>),
              openai_api_key |-> global_key]
        ELSE [outcome |-> Return([api_key |-> key,
                                  model |-> model,
                                  llm |-> [model_name |-> model,
                                           openai_api_key |-> key]]),
              openai_api_key |-> key]

-----------------------------------------------------------------------------
(* The two strategies.  `oracle` is what the external provider does with   *)
(* the one invocation: the content it returns or the exception it raises.  *)

\* openai.ChatCompletion.create(...) reads the module attribute openai.api_key
ChatCompletionCall(self, text, summary_type, max_length, oracle, global_key) ==
    [api |-> "openai.ChatCompletion.create",
     api_key |-> global_key,
     model |-> self.model,
     input |-> [messages |-> <<[role |-> "system", content |-> SystemPrompt],
                               [role |-> "user",
                                content |-> build_prompt(text, summary_type, max_length)]>>,
                max_tokens |-> max_length * 2],
     result |-> oracle]

summarize_short(self, text, summary_type, max_length, oracle, global_key) ==
    [outcome |-> IF oracle.kind = "raise" THEN oracle
                 ELSE Return(Strip(oracle.content)),
     calls |-> <<ChatCompletionCall(self, text, summary_type, max_length,
                                    oracle, global_key)>>]

\* RecursiveCharacterTextSplitter(chunk_size, chunk_overlap).split_text:
\* a text within chunk_size is one chunk, a longer one overlapping windows.
SplitText(text) ==
    IF Len(text) <= ChunkSize THEN <<text>>
    ELSE LET step == ChunkSize - ChunkOverlap
             n == ((Len(text) - ChunkOverlap) + step - 1) \div step
         IN  [i \in 1..n |->
                 SubSeq(text, (i - 1) * step + 1,
                        IF (i - 1) * step + ChunkSize < Len(text)
                        THEN (i - 1) * step + ChunkSize ELSE Len(text))]

\* chain.run(docs) on the chain built over self.llm
ChainRunCall(self, text, summary_type, max_length, oracle) ==
    [api |-> "chain.run",
     api_key |-> self.llm.openai_api_key,
     model |-> self.llm.model_name,
     input |-> [docs |-> SplitText(text), chain_type |-> "map_reduce"],
     result |-> oracle]

summarize_long(self, text, summary_type, max_length, oracle) ==
    [outcome |-> IF oracle.kind = "raise" THEN oracle
                 ELSE IF summary_type = "bullet_points"
                      THEN Return(format_as_bullets(oracle.content))
                      ELSE Return(oracle.content),
     calls |-> <<ChainRunCall(self, text, summary_type, max_length, oracle)>>]

-----------------------------------------------------------------------------
(* TextSummarizer.summarize                                                *)

\* Only the empty string is rejected.
IsBlankEmptyOnly(text) == text = <<>>

\* not text or len(text.strip()) == 0
IsBlank(text) == text = <<>> \/ Len(Strip(text)) = 0

\* The branch taken on the stripped length.
UseShortStripped(text) == Len(Strip(text)) < ShortLimit

\* len(text) < 1000
UseShort(text) == Len(text) < ShortLimit

SummaryResult(text, summary) ==
    [summary |-> summary,
     original_length |-> Len(text),
     summary_length |-> Len(summary),
     compression_ratio |-> CompressionRatio(Len(summary), Len(text)),
     word_count |-> WordCount(summary)]

\* Every provider error re-raised as ValueError.
MapExceptionAllValueError(e) == Raise("ValueError", <<"Invalid OpenAI API key">>)

\* The except clauses of summarize
MapException(e) ==
    IF e.exc = "AuthenticationError"
    THEN Raise("ValueError", <<"Invalid OpenAI API key">>)
    ELSE IF e.exc = "RateLimitError"
    THEN Raise("ValueError",
               <<"OpenAI API rate limit exceeded. Please try again later.">>)
    ELSE Raise("Exception", <<"Summarization failed: ">> \o e.msg)

Strategy(self, text, summary_type, max_length, oracle, global_key) ==
    IF UseShort(text)
    THEN summarize_short(self, text, summary_type, max_length, oracle, global_key)
    ELSE summarize_long(self, text, summary_type, max_length, oracle)

summarize(self, text, max_length, summary_type, oracle, global_key) ==
    IF IsBlank(text)
    THEN [outcome |-> Raise("ValueError", <<"Text cannot be empty">>),
          calls |-> <<>>]
    ELSE LET r == Strategy(self, text, summary_type, max_length, oracle, global_key)
         IN  [outcome |-> IF r.outcome.kind = "return"
                          THEN Return(SummaryResult(text, r.outcome.value))
                          ELSE MapException(r.outcome),
              calls |-> r.calls]

-----------------------------------------------------------------------------
(* TextSummarizer.batch_summarize                                          *)

\* dict.get(key, default) / a keyword argument with a default
Get(d, key, default) == IF key \in DOMAIN d THEN d[key] ELSE default

\* text[:100] + '...' if len(text) > 100 else text
OriginalText(text) ==
    IF Len(text) > OriginalTextLimit
    THEN SubSeq(text, 1, OriginalTextLimit) \o <<".", ".", ".">>
    ELSE text

\* One pass of the loop body: the entry appended for `text`.
BatchEntry(outcome, text) ==
    IF outcome.kind = "return" THEN outcome.value
    ELSE [error |-> outcome.msg, original_text |-> OriginalText(text)]

\* The loop stops at the first failure.
batch_summarize_stops(self, texts, kwargs, oracles, global_key) ==
    LET one(i) == summarize(self, texts[i],
                            Get(kwargs, "max_length", DefaultMaxLength),
                            Get(kwargs, "summary_type", DefaultSummaryType),
                            oracles[i], global_key)
        failed == {i \in 1..Len(texts) : one(i).outcome.kind = "raise"}
        n == IF failed = {} THEN Len(texts) ELSE Min(failed)
        RECURSIVE Calls(_)
        Calls(i) == IF i > n THEN <<>> ELSE one(i).calls \o Calls(i + 1)
    IN  [outcome |-> Return([i \in 1..n |-> BatchEntry(one(i).outcome, texts[i])]),
         calls |-> Calls(1)]

batch_summarize(self, texts, kwargs, oracles, global_key) ==
    LET one(i) == summarize(self, texts[i],
                            Get(kwargs, "max_length", DefaultMaxLength),
                            Get(kwargs, "summary_type", DefaultSummaryType),
                            oracles[i], global_key)
        RECURSIVE Calls(_)
        Calls(i) == IF i > Len(texts) THEN <<>> ELSE one(i).calls \o Calls(i + 1)
    IN  [outcome |-> Return([i \in 1..Len(texts) |->
                                BatchEntry(one(i).outcome, texts[i])]),
         calls |-> Calls(1)]

-----------------------------------------------------------------------------
(* app.py: POST /api/v1/summarize                                          *)

\* except ValueError -> 400, except Exception -> 500
ErrorResponse(e) ==
    IF IsValueError(e.exc)
    THEN [kind |-> "http", status |-> 400, body |-> [error |-> e.msg]]
    ELSE [kind |-> "http", status |-> 500,
          body |-> [error |-> <<"Summarization failed: ">> \o e.msg]]

SuccessResponse(result) ==
    [kind |-> "http", status |-> 200,
     body |-> [success |-> TRUE,
               summary |-> result.summary,
               original_length |-> result.original_length,
               summary_length |-> result.summary_length,
               compression_ratio |-> result.compression_ratio,
               word_count |-> result.word_count]]

\* The handler: its response, the provider calls it made and the value
\* openai.api_key holds afterwards.
summarize_text(data, environ, global_key, oracle) ==
    LET text == Get(data, "text", <<>>)
        max_length == Get(data, "max_length", DefaultMaxLength)
        summary_type == Get(data, "summary_type", DefaultSummaryType)
    IN  IF IsBlank(text)
        THEN [response |-> [kind |-> "http", status |-> 400,
                            body |-> [error |-> <<"Text cannot be empty">>]],
              calls |-> <<>>,
              openai_api_key |-> global_key]
        ELSE LET c == TextSummarizer_init(NoValue, DefaultModel, environ, global_key)
             IN  IF c.outcome.kind = "raise"
                 THEN [response |-> ErrorResponse(c.outcome),
                       calls |-> <<>>,
                       openai_api_key |-> c.openai_api_key]
                 ELSE LET r == summarize(c.outcome.value, text, max_length,
                                         summary_type, oracle, c.openai_api_key)
                      IN  [response |-> IF r.outcome.kind = "return"
                                        THEN SuccessResponse(r.outcome.value)
                                        ELSE ErrorResponse(r.outcome),
                           calls |-> r.calls,
                           openai_api_key |-> c.openai_api_key]

-----------------------------------------------------------------------------
(* Inputs                                                                  *)

MaxSummarizers == 2     \* TextSummarizer objects alive at once
MaxTextLen == 3         \* lengths 1..MaxTextLen of the one-word texts
MaxBatch == 3           \* length of a batch
MaxPromptTextLen == 2   \* texts given to _build_prompt alone
MaxBulletLen == 4       \* texts given to _format_as_bullets alone

Keys == {"k1", "k2"}
KeyValues == {NoValue, ""} \cup Keys     \* an argument or environment value

RECURSIVE SeqsUpTo(_, _)
SeqsUpTo(S, n) ==
    IF n = 0 THEN {<<>>}
    ELSE LET shorter == SeqsUpTo(S, n - 1)
         IN  shorter \cup {Append(q, x) : q \in {t \in shorter : Len(t) = n - 1}, x \in S}

\* A text of n characters that ends in a space.
Padded(n) == [i \in 1..n |-> IF i = n THEN " " ELSE "a"]

BlankTexts == {<<>>, <<" ", "\n">>}
WordTexts == {Repeat(<<"a">>, n) : n \in 1..MaxTextLen}
              \cup {<<"H", "i", " ", "t", "h", "e", "r", "e">>}
LongTexts == {Padded(ShortLimit - 1), Padded(ShortLimit)}
Texts == BlankTexts \cup WordTexts \cup LongTexts

SummaryTypes == {"concise", "detailed", "bullet_points", "other"}
MaxLengths == {50, DefaultMaxLength}

\* Keyword arguments of summarize / optional fields of the JSON payload
Kwargs ==
    {<<>>,
     [max_length |-> 50],
     [summary_type |-> "bullet_points"],
     [summary_type |-> "other"],
     [max_length |-> 50, summary_type |-> "detailed"]}

\* What the provider returns ...
Contents ==
    {<<>>,
     <<" ", "a", " ", "b", "\n">>,
     <<"a", "b", "c", "d", "e">>,
     <<"O", "n", "e", ".", " ", "T", "w", "o">>,
     <<"-", " ", "x">>}

\* ... or raises
ProviderErrors ==
    {Raise("AuthenticationError", <<"Incorrect API key provided">>),
     Raise("RateLimitError", <<"Rate limit reached">>),
     Raise("ValueError", <<"Invalid value">>),
     Raise("APIError", <<"The server had an error">>)}

Oracles == {[kind |-> "content", content |-> c] : c \in Contents} \cup ProviderErrors

NoRequest == [kind |-> "none"]
NoResponse == [kind |-> "none"]

Idle == request.kind = "none"
Pending(kind) == request.kind = kind /\ response.kind = "none"
Done(kind) == request.kind = kind /\ response.kind # "none"

-----------------------------------------------------------------------------
(* The program: constructions, summarize calls and HTTP requests           *)

Init ==
    /\ env = NoValue
    /\ openai_api_key = NoValue
    /\ summarizers = <<>>
    /\ request = NoRequest
    /\ response = NoResponse
    /\ calls = <<>>

\* os.environ['OPENAI_API_KEY'] = v / del os.environ['OPENAI_API_KEY']
SetEnv(v) ==
    /\ Idle
    /\ v # env
    /\ env' = v
    /\ UNCHANGED <<openai_api_key, summarizers, request, response, calls>>

\* TextSummarizer(api_key=...)
Construct(api_key) ==
    /\ Idle
    /\ Len(summarizers) < MaxSummarizers
    /\ LET c == TextSummarizer_init(api_key, DefaultModel, env, openai_api_key)
       IN  /\ request' = [kind |-> "TextSummarizer", api_key |-> api_key]
           /\ response' = c.outcome
           /\ openai_api_key' = c.openai_api_key
           /\ summarizers' = IF c.outcome.kind = "return"
                             THEN Append(summarizers, c.outcome.value)
                             ELSE summarizers
    /\ UNCHANGED <<env, calls>>

\* A caller invokes summarizers[i].summarize(text, **kwargs)
CallSummarize(i, text, kwargs) ==
    /\ Idle
    /\ i \in 1..Len(summarizers)
    /\ request' = [kind |-> "summarize", self |-> i, text |-> text, kwargs |-> kwargs]
    /\ UNCHANGED <<env, openai_api_key, summarizers, response, calls>>

\* TextSummarizer.summarize runs
Summarize(oracle) ==
    /\ Pending("summarize")
    /\ LET r == summarize(summarizers[request.self], request.text,
                          Get(request.kwargs, "max_length", DefaultMaxLength),
                          Get(request.kwargs, "summary_type", DefaultSummaryType),
                          oracle, openai_api_key)
       IN  /\ response' = r.outcome
           /\ calls' = r.calls
    /\ UNCHANGED <<env, openai_api_key, summarizers, request>>

\* A client sends POST /api/v1/summarize with JSON `data`
PostSummarize(data) ==
    /\ Idle
    /\ request' = [kind |-> "POST /api/v1/summarize", data |-> data]
    /\ UNCHANGED <<env, openai_api_key, summarizers, response, calls>>

\* summarize_text handles the request
SummarizeText(oracle) ==
    /\ Pending("POST /api/v1/summarize")
    /\ LET r == summarize_text(request.data, env, openai_api_key, oracle)
       IN  /\ response' = r.response
           /\ calls' = r.calls
           /\ openai_api_key' = r.openai_api_key
    /\ UNCHANGED <<env, summarizers, request>>

\* The caller takes the result
Finish ==
    /\ response.kind # "none"
    /\ request' = NoRequest
    /\ response' = NoResponse
    /\ calls' = <<>>
    /\ UNCHANGED <<env, openai_api_key, summarizers>>

Payloads ==
    {kw @@ [text |-> t] : kw \in Kwargs, t \in Texts} \cup {<<>>}

Next ==
    \/ \E v \in KeyValues : SetEnv(v)
    \/ \E k \in KeyValues : Construct(k)
    \/ \E i \in 1..MaxSummarizers, t \in Texts, kw \in Kwargs : CallSummarize(i, t, kw)
    \/ \E o \in Oracles : Summarize(o)
    \/ \E d \in Payloads : PostSummarize(d)
    \/ \E o \in Oracles : SummarizeText(o)
    \/ Finish

Spec == Init /\ [][Next]_vars

-----------------------------------------------------------------------------
(* batch_summarize on one summarizer                                       *)

BatchTexts == {<<>>, <<"a">>, Padded(ShortLimit)}
BatchKwargs == {<<>>, [summary_type |-> "bullet_points"]}
BatchOracles ==
    {[kind |-> "content", content |-> <<"O", "n", "e", ".", " ", "T", "w", "o">>],
     Raise("AuthenticationError", <<"Incorrect API key provided">>),
     Raise("APIError", <<"The server had an error">>)}

InitBatch ==
    LET c == TextSummarizer_init("k1", DefaultModel, NoValue, NoValue)
    IN  /\ env = NoValue
        /\ openai_api_key = c.openai_api_key
        /\ summarizers = <<c.outcome.value>>
        /\ request = NoRequest
        /\ response = NoResponse
        /\ calls = <<>>

\* A caller invokes summarizers[1].batch_summarize(texts, **kwargs)
CallBatch(texts, kwargs) ==
    /\ Idle
    /\ request' = [kind |-> "batch_summarize", self |-> 1,
                   texts |-> texts, kwargs |-> kwargs]
    /\ UNCHANGED <<env, openai_api_key, summarizers, response, calls>>

\* TextSummarizer.batch_summarize runs; oracles[i] is the provider's
\* behaviour for texts[i] should it be invoked
BatchSummarize(oracles) ==
    /\ Pending("batch_summarize")
    /\ Len(oracles) = Len(request.texts)
    /\ LET r == batch_summarize(summarizers[request.self], request.texts,
                                request.kwargs, oracles, openai_api_key)
       IN  /\ response' = r.outcome
           /\ calls' = r.calls
    /\ UNCHANGED <<env, openai_api_key, summarizers, request>>

NextBatch ==
    \/ \E ts \in SeqsUpTo(BatchTexts, MaxBatch), kw \in BatchKwargs : CallBatch(ts, kw)
    \/ \E os \in SeqsUpTo(BatchOracles, MaxBatch) : BatchSummarize(os)
    \/ Finish

SpecBatch == InitBatch /\ [][NextBatch]_vars

-----------------------------------------------------------------------------
(* _build_prompt alone                                                     *)

PromptTexts ==
    SeqsUpTo({"a", " ", "\n"}, MaxPromptTextLen)
        \cup {<<"T", "e", "s", "t", " ", "t", "e", "x", "t">>}
PromptTypes == SummaryTypes \cup {""}
PromptLengths == {-5, 0, 7, 50, 100, 150, 200, 1000}

InitPrompt ==
    /\ env = NoValue
    /\ openai_api_key = NoValue
    /\ summarizers = <<>>
    /\ request \in {[kind |-> "_build_prompt", text |-> t,
                     summary_type |-> st, max_length |-> ml] :
                        t \in PromptTexts, st \in PromptTypes, ml \in PromptLengths}
    /\ response = NoResponse
    /\ calls = <<>>

BuildPrompt ==
    /\ Pending("_build_prompt")
    /\ response' = Return(build_prompt(request.text, request.summary_type,
                                       request.max_length))
    /\ UNCHANGED <<env, openai_api_key, summarizers, request, calls>>

NextPrompt == BuildPrompt

SpecPrompt == InitPrompt /\ [][NextPrompt]_vars

-----------------------------------------------------------------------------
(* _format_as_bullets alone                                                *)

BulletAlphabet == {"a", ".", " ", "\n", "-", BulletChar}
BulletTexts == SeqsUpTo(BulletAlphabet, MaxBulletLen)

InitBullets ==
    /\ env = NoValue
    /\ openai_api_key = NoValue
    /\ summarizers = <<>>
    /\ request \in {[kind |-> "_format_as_bullets", text |-> t] : t \in BulletTexts}
    /\ response = NoResponse
    /\ calls = <<>>

FormatAsBullets ==
    /\ Pending("_format_as_bullets")
    /\ response' = Return(format_as_bullets(request.text))
    /\ UNCHANGED <<env, openai_api_key, summarizers, request, calls>>

\* The output is formatted once more
Reformat ==
    /\ Done("_format_as_bullets")
    /\ request' = [kind |-> "_format_as_bullets again", text |-> response.value]
    /\ response' = Return(format_as_bullets(response.value))
    /\ UNCHANGED <<env, openai_api_key, summarizers, calls>>

NextBullets == FormatAsBullets \/ Reformat

SpecBullets == InitBullets /\ [][NextBullets]_vars

-----------------------------------------------------------------------------
(* Properties                                                              *)

HttpKind == "POST /api/v1/summarize"

\* Stated on the characters: empty, or nothing but whitespace.
OnlyWhitespace(t) == \A i \in 1..Len(t) : t[i] \in Whitespace

PostedText == Get(request.data, "text", <<>>)

EmptyTextMessage == <<"Text cannot be empty">>
KeyRequiredMessage ==
    <<"OpenAI API key is required. Set OPENAI_API_KEY environment variable.">>

\* C1: an empty or whitespace-only text is rejected.  summarize raises
\* ValueError('Text cannot be empty'); POST /api/v1/summarize answers 400
\* with that error, also when no API key is configured; neither makes any
\* call to the external provider.
C1_EmptyTextRejected ==
    /\ (Done("summarize") /\ OnlyWhitespace(request.text))
          => /\ response = Raise("ValueError", EmptyTextMessage)
             /\ calls = <<>>
    /\ (Done(HttpKind) /\ OnlyWhitespace(PostedText))
          => /\ response.status = 400
             /\ response.body = [error |-> EmptyTextMessage]
             /\ calls = <<>>

C1_Witness ==
    /\ Done(HttpKind)
    /\ PostedText = <<" ", "\n">>
    /\ ~Truthy(env)
    /\ response.status = 400
    /\ response.body = [error |-> EmptyTextMessage]

\* C2: for a POST with non-empty text, an authentication or rate-limit
\* error of the provider is answered 400 with an error message, any other
\* exception of the provider (a ValueError included) 500 with a message
\* beginning 'Summarization failed:', and success is answered only when
\* the external call returned a summary.
C2_ErrorMapping ==
    (Done(HttpKind) /\ ~OnlyWhitespace(PostedText)) =>
        /\ \A i \in 1..Len(calls) :
              calls[i].result.kind = "raise" =>
                 IF calls[i].result.exc \in {"AuthenticationError", "RateLimitError"}
                 THEN /\ response.status = 400
                      /\ DOMAIN response.body = {"error"}
                      /\ response.body.error # <<>>
                 ELSE /\ response.status = 500
                      /\ DOMAIN response.body = {"error"}
                      /\ Head(response.body.error) = "Summarization failed: "
        /\ ("success" \in DOMAIN response.body \/ response.status = 200) =>
              /\ response.status = 200
              /\ response.body.success = TRUE
              /\ "summary" \in DOMAIN response.body
              /\ Len(calls) = 1
              /\ calls[1].result.kind = "content"

C2_Witness ==
    /\ Done(HttpKind)
    /\ Len(calls) = 1
    /\ calls[1].result.kind = "raise"
    /\ calls[1].result.exc = "ValueError"
    /\ response.status = 500

\* The key the summarizer serving `request` was constructed with.
OwnApiKey ==
    IF request.kind = "summarize" THEN summarizers[request.self].api_key
    ELSE ResolveApiKey(NoValue, env)

\* C3: no shared mutable state: the credential presented to the provider
\* by a summarize call is the key its own summarizer was constructed
\* with, whatever was constructed or run before or in between.
C3_OwnCredential ==
    (Done("summarize") \/ Done(HttpKind)) =>
        \A i \in 1..Len(calls) : calls[i].api_key = OwnApiKey

\* C4: the constructor raises ValueError exactly when neither the api_key
\* argument nor OPENAI_API_KEY is non-empty; otherwise the instance holds
\* the argument when one is given and the environment's value when not.
\* On the HTTP path a missing key is answered 400 with no provider call.
C4_ApiKeyResolution ==
    /\ Done("TextSummarizer") =>
          IF ~Truthy(request.api_key) /\ ~Truthy(env)
          THEN response = Raise("ValueError", KeyRequiredMessage)
          ELSE /\ response.kind = "return"
               /\ response.value.api_key =
                     (IF Truthy(request.api_key) THEN request.api_key ELSE env)
    /\ (Done(HttpKind) /\ ~Truthy(env))
          => /\ response.status = 400
             /\ calls = <<>>

C4_Witness ==
    /\ Done("TextSummarizer")
    /\ request.api_key = "k2"
    /\ env = "k1"
    /\ response.kind = "return"
    /\ response.value.api_key = "k2"

\* Words counted at their last characters.
WordsOf(s) ==
    Cardinality({i \in 1..Len(s) :
                    /\ s[i] \notin Whitespace
                    /\ (i = Len(s) \/ s[i + 1] \in Whitespace)})

Abs(n) == IF n < 0 THEN -n ELSE n

ResultKeys ==
    {"summary", "original_length", "summary_length", "compression_ratio",
     "word_count"}

\* r's lengths, ratio (the hundredth nearest summary_length /
\* original_length) and word count are those of r.summary and `text`.
ConsistentResult(r, text) ==
    /\ r.original_length = Len(text)
    /\ r.original_length >= 1
    /\ r.summary_length = Len(r.summary)
    /\ 2 * Abs(r.compression_ratio * r.original_length - 100 * r.summary_length)
          <= r.original_length
    /\ r.word_count = WordsOf(r.summary)

\* C6: a successful summarize result has the keys summary,
\* original_length, summary_length, compression_ratio and word_count, with
\* original_length = len(text) >= 1, summary_length = len(summary), the
\* ratio rounded to two decimals and the word count of the summary; the
\* HTTP success response carries the same five values.
C6_ResultFields ==
    /\ (Done("summarize") /\ response.kind = "return")
          => /\ DOMAIN response.value = ResultKeys
             /\ ConsistentResult(response.value, request.text)
    /\ (Done(HttpKind) /\ response.status = 200)
          => /\ DOMAIN response.body = ResultKeys \cup {"success"}
             /\ ConsistentResult(response.body, PostedText)

C6_Witness ==
    /\ Done("summarize")
    /\ response.kind = "return"
    /\ response.value.original_length = ShortLimit
    /\ response.value.summary_length = 5
    /\ response.value.compression_ratio = 1
    /\ response.value.word_count = 1

RequestText == IF request.kind = "summarize" THEN request.text ELSE PostedText

\* C9: one summarize call on a non-empty, non-whitespace text invokes
\* exactly one strategy exactly once, the direct chat completion when
\* len(text) < 1000 and the chain when len(text) >= 1000, also when the
\* invocation fails.
C9_OneStrategyOnce ==
    ((Done("summarize") \/ (Done(HttpKind) /\ Truthy(env)))
        /\ ~OnlyWhitespace(RequestText))
    => /\ Len(calls) = 1
       /\ calls[1].api = (IF Len(RequestText) < ShortLimit
                          THEN "openai.ChatCompletion.create"
                          ELSE "chain.run")

C9_Witness ==
    /\ Done("summarize")
    /\ Len(request.text) = ShortLimit
    /\ Len(calls) = 1
    /\ calls[1].api = "chain.run"
    /\ calls[1].result.kind = "raise"

\* The input the provider is sent for the request at hand with
\* summary_type st and max_length ml.
ProviderInput(st, ml) ==
    Strategy(summarizers[request.self], request.text, st, ml,
             calls[1].result, openai_api_key).calls[1].input

\* C10: the input sent to the provider is built from the text, the
\* summary_type and the max_length: the same request with another
\* summary_type or another max_length sends a different input.
C10_InputFromAllThree ==
    (Done("summarize") /\ calls # <<>>) =>
        LET st == Get(request.kwargs, "summary_type", DefaultSummaryType)
            ml == Get(request.kwargs, "max_length", DefaultMaxLength)
        IN  /\ calls[1].input = ProviderInput(st, ml)
            /\ \A st2 \in SummaryTypes \ {st} : ProviderInput(st2, ml) # calls[1].input
            /\ \A ml2 \in MaxLengths \ {ml} : ProviderInput(st, ml2) # calls[1].input

-----------------------------------------------------------------------------
(* Properties of batch_summarize, under SpecBatch                          *)

\* How many of texts[1..i] reach the provider.
NonBlankUpTo(texts, i) == Cardinality({j \in 1..i : ~OnlyWhitespace(texts[j])})

\* C5: batch_summarize never raises and returns len(texts) entries in
\* input order: entry i is the result dictionary of summarize(texts[i])
\* when that call succeeds and a dictionary with an 'error' key and no
\* 'summary' key when it fails; a failure never keeps the later texts
\* from being processed.
C5_BatchResults ==
    Done("batch_summarize") =>
        LET texts == request.texts
            self == summarizers[request.self]
            ml == Get(request.kwargs, "max_length", DefaultMaxLength)
            st == Get(request.kwargs, "summary_type", DefaultSummaryType)
        IN  /\ response.kind = "return"
            /\ Len(response.value) = Len(texts)
            /\ Len(calls) = NonBlankUpTo(texts, Len(texts))
            /\ \A i \in 1..Len(texts) :
                  LET e == response.value[i]
                      k == NonBlankUpTo(texts, i)
                  IN  IF OnlyWhitespace(texts[i]) \/ calls[k].result.kind = "raise"
                      THEN "error" \in DOMAIN e /\ "summary" \notin DOMAIN e
                      ELSE /\ DOMAIN e = ResultKeys
                           /\ ConsistentResult(e, texts[i])
                           /\ e = summarize(self, texts[i], ml, st, calls[k].result,
                                            openai_api_key).outcome.value

C5_Witness ==
    /\ Done("batch_summarize")
    /\ Len(request.texts) = 3
    /\ ~OnlyWhitespace(request.texts[1])
    /\ calls[1].result.kind = "raise"
    /\ "error" \in DOMAIN response.value[1]
    /\ "summary" \in DOMAIN response.value[2]
    /\ request.texts[3] = <<>>
    /\ "error" \in DOMAIN response.value[3]

-----------------------------------------------------------------------------
(* Properties of _build_prompt, under SpecPrompt                           *)

\* The decimal numerals of the lengths tried, written out.
Numeral(n) ==
    CASE n = -5 -> <<"-", "5">>
      [] n = 0 -> <<"0">>
      [] n = 7 -> <<"7">>
      [] n = 50 -> <<"5", "0">>
      [] n = 100 -> <<"1", "0", "0">>
      [] n = 150 -> <<"1", "5", "0">>
      [] n = 200 -> <<"2", "0", "0">>
      [] n = 1000 -> <<"1", "0", "0", "0">>

\* C7: the prompt contains the decimal value of max_length, the full text
\* verbatim, and the instruction selected by summary_type: one mentioning
\* 'concise', 'detailed' or 'bullet point' for the three known types and
\* 'Provide a clear summary.' for any other value, which is no error.
C7_PromptContents ==
    Done("_build_prompt") =>
        LET p == response.value
            st == request.summary_type
        IN  /\ response.kind = "return"
            /\ Contains(p, Numeral(request.max_length))
            /\ Contains(p, request.text)
            /\ st = "concise" => Contains(p, <<"c", "o", "n", "c", "i", "s", "e">>)
            /\ st = "detailed" => Contains(p, <<"d", "e", "t", "a", "i", "l", "e", "d">>)
            /\ st = "bullet_points" =>
                  Contains(p, <<"b", "u", "l", "l", "e", "t", " ", "p", "o", "i", "n", "t">>)
            /\ st \notin {"concise", "detailed", "bullet_points"} =>
                  Contains(p, <<"P", "r", "o", "v", "i", "d", "e", " ", "a", " ",
                                "c", "l", "e", "a", "r", " ",
                                "s", "u", "m", "m", "a", "r", "y", ".">>)

C7_Witness ==
    /\ Done("_build_prompt")
    /\ request.summary_type = "other"
    /\ request.max_length = 200
    /\ request.text = <<"T", "e", "s", "t", " ", "t", "e", "x", "t">>
    /\ Contains(response.value, GenericInstruction)
    /\ Contains(response.value, <<"2", "0", "0">>)

-----------------------------------------------------------------------------
(* Properties of _format_as_bullets, under SpecBullets                     *)

\* '* ' + the trimmed sentence, ended by one period: none is added to a
\* trimmed sentence that ends with one.
OnePeriodBullet(sent) ==
    <<BulletChar, " ">> \o Strip(sent)
        \o (IF EndsWithPeriod(Strip(sent)) THEN <<>> ELSE <<".">>)

RECURSIVE OnePeriodLines(_)
OnePeriodLines(sentences) ==
    IF sentences = <<>> THEN <<>>
    ELSE IF Strip(Head(sentences)) = <<>> THEN OnePeriodLines(Tail(sentences))
    ELSE <<OnePeriodBullet(Head(sentences))>> \o OnePeriodLines(Tail(sentences))

\* C8: _format_as_bullets returns its input unchanged when it contains a
\* bullet character or a '-'; otherwise one line per non-empty '. '-
\* separated sentence, each '* ' followed by the trimmed sentence
\* terminated by exactly one period; applied to its own output it
\* returns that output unchanged.
C8_BulletFormat ==
    /\ Done("_format_as_bullets") =>
          response.value =
             (IF BulletChar \in Range(request.text) \/ "-" \in Range(request.text)
              THEN request.text
              ELSE JoinLines(OnePeriodLines(SplitSentences(request.text))))
    /\ Done("_format_as_bullets again") => response.value = request.text

=============================================================================
